---- MODULE Spec2Model ----
(***************************************************************************)
(* MLHubDockerSpawner (docker-res/mlhubspawner/mlhubspawner/mlhubspawner.py) *)
(* start() configures the container, acquires a per-workload network with  *)
(* create_network(), connects the hub to it and starts the container.      *)
(* The Docker daemon is the environment: its calls (networks.list,         *)
(* networks.create, network.connect, DockerSpawner.start) succeed or fail  *)
(* nondeterministically; spawners may belong to different hub processes,   *)
(* so their runtime calls interleave.                                      *)
(***************************************************************************)
EXTENDS Integers, Sequences, FiniteSets, TLC

VARIABLES
    networks,           \* the daemon's networks, in listing order
    pc,                 \* per spawner: position inside start()
    attempts,           \* per spawner: number of start() calls begun
    form,               \* per spawner: the form data submitted for the launch
    user_options,       \* per spawner: self.user_options
    image,              \* per spawner: self.image
    extra_host_config,  \* per spawner: self.extra_host_config
    volumes,            \* per spawner: self.volumes
    network_name,       \* per spawner: self.network_name
    listed,             \* per spawner: what networks.list() returned to this call
    next_cidr,          \* per spawner: the IPAM pool create_network computed
    created_network,    \* per spawner: local created_network of start()
    caught,             \* per spawner: the exception start() caught or let through
    calls,              \* per spawner: runtime calls issued by the current start()
    outcome,            \* per spawner: how the current start() ended
    createRequests      \* every networks.create call issued so far

vars == <<networks, pc, attempts, form, user_options, image, extra_host_config, volumes,
          network_name, listed, next_cidr, created_network, caught, calls,
          outcome, createRequests>>

-----------------------------------------------------------------------------
(* Bounds *)

MaxInitNetworks == 2
MaxLaunches == 2

Spawners == {"s1", "s2", "s3"}

-----------------------------------------------------------------------------
(* Program constants *)

INITIAL_CIDR_FIRST_OCTET == 172
INITIAL_CIDR_SECOND_OCTET == 33

\* multiprocessing.cpu_count() of the host
cpu_count == 2

None == "None"

-----------------------------------------------------------------------------
(* ipaddress: an IPv4 address is its four packed octets *)

Low24(a) == a[2] * 65536 + a[3] * 256 + a[4]

\* IPv4Address.__add__
AddrAdd(a, n) ==
    LET sum == Low24(a) + n
        low == sum % 16777216
    IN  <<a[1] + (sum \div 16777216), low \div 65536, (low \div 256) % 256, low % 256>>

\* IPv4Address.__lt__
AddrLT(a, b) == a[1] < b[1] \/ (a[1] = b[1] /\ Low24(a) < Low24(b))

RECURSIVE Pow2(_)
Pow2(n) == IF n = 0 THEN 1 ELSE 2 * Pow2(n - 1)

\* the host bits of address a under a prefix length in 8..32
HostBits(a, prefix) == Low24(a) % Pow2(32 - prefix)

\* A subnet string as the daemon reports it: text is "cidr" for "a.b.c.d/p",
\* "empty" for "", "garbage" for a string that is no CIDR at all.
SubnetStr(text, addr, prefix) == [text |-> text, addr |-> addr, prefix |-> prefix]
Cidr(a, b, c, d, prefix) == SubnetStr("cidr", <<a, b, c, d>>, prefix)

\* ipaddress.ip_network(s) (strict): raises ValueError for a string that is
\* no CIDR and for a CIDR with host bits set
ip_network_raises(s) == s.text # "cidr" \/ HostBits(s.addr, s.prefix) # 0
ip_network(s) == [network_address |-> s.addr, prefixlen |-> s.prefix]

\* _BaseNetwork.__gt__: by network address, then by netmask
NetworkGT(x, y) ==
    \/ AddrLT(y.network_address, x.network_address)
    \/ x.network_address = y.network_address /\ x.prefixlen > y.prefixlen

\* INITIAL_CIDR = "172.33.0.0/24"
INITIAL_CIDR == Cidr(INITIAL_CIDR_FIRST_OCTET, 33, 0, 0, 24)

-----------------------------------------------------------------------------
(* Network records of the daemon *)

NoAddr == <<0, 0, 0, 0>>

\* ipam is "None" (attrs["IPAM"] is None), "NoConfig" (Config is None or [])
\* or "Config" (Config[0] carries Subnet and Gateway)
Network(name, ipam, subnet, gateway) ==
    [name |-> name, ipam |-> ipam, Subnet |-> subnet, Gateway |-> gateway]

NoSubnet == SubnetStr("empty", NoAddr, 0)

\* str.lower() on the names of the model
lower(s) ==
    CASE s = "WS-1" -> "ws-1"
      [] s = "Ws-2" -> "ws-2"
      [] s = "NetA" -> "neta"
      [] OTHER -> s

-----------------------------------------------------------------------------
(* create_network: the scan of the listing and the candidate subnet *)

has_complete_network_information(network) ==
    network.ipam = "Config" /\ network.Subnet.text # "empty"

\* every listed network passes for the network of that name
NameMatches_any(network, name) == network.name = network.name

\* network.name.lower() == name.lower()
NameMatches(network, name) == lower(network.name) = lower(name)

\* second octet >= INITIAL_CIDR_SECOND_OCTET, whatever the first octet
InReservedRange_any_first_octet(cidr) ==
    cidr.network_address[2] >= INITIAL_CIDR_SECOND_OCTET

\* first octet is INITIAL_CIDR_FIRST_OCTET, second octet >= INITIAL_CIDR_SECOND_OCTET
InReservedRange(cidr) ==
    /\ cidr.network_address[1] = INITIAL_CIDR_FIRST_OCTET
    /\ cidr.network_address[2] >= INITIAL_CIDR_SECOND_OCTET

\* the comparison reversed: if cidr < highest_cidr
Higher_reversed(cidr, highest_cidr) ==
    IF NetworkGT(highest_cidr, cidr) THEN cidr ELSE highest_cidr

\* if cidr > highest_cidr: highest_cidr = cidr
Higher(cidr, highest_cidr) ==
    IF NetworkGT(cidr, highest_cidr) THEN cidr ELSE highest_cidr

ScanResult(kind, index, highest_cidr) ==
    [kind |-> kind, index |-> index, highest_cidr |-> highest_cidr]

\* the for loop over the listing, from position i on: it ends "existing" at
\* the first network named like the request, "ValueError" at a complete
\* network whose subnet ip_network() rejects, "scanned" at the end
RECURSIVE ScanNetworks(_, _, _, _)
ScanNetworks(nets, i, name, highest_cidr) ==
    IF i > Len(nets) THEN ScanResult("scanned", 0, highest_cidr)
    ELSE IF NameMatches(nets[i], name) THEN ScanResult("existing", i, highest_cidr)
    ELSE IF ~has_complete_network_information(nets[i])
         THEN ScanNetworks(nets, i + 1, name, highest_cidr)
    ELSE IF ip_network_raises(nets[i].Subnet) THEN ScanResult("ValueError", i, highest_cidr)
    ELSE LET cidr == ip_network(nets[i].Subnet)
         IN  ScanNetworks(nets, i + 1, name,
                 IF InReservedRange(cidr) THEN Higher(cidr, highest_cidr)
                 ELSE highest_cidr)

\* one host added instead of one /24 block
NextNetworkAddress_one_host(highest_cidr) == AddrAdd(highest_cidr.network_address, 1)

\* highest_cidr.network_address + 256
NextNetworkAddress(highest_cidr) == AddrAdd(highest_cidr.network_address, 256)

\* the check of the first octet left out
AddressSpaceExhausted_unchecked(address) == FALSE

\* next_cidr.network_address.packed[0] > INITIAL_CIDR_FIRST_OCTET
AddressSpaceExhausted(address) == address[1] > INITIAL_CIDR_FIRST_OCTET

\* one /24 block added instead of one host
GatewayOf_next_block(address) == AddrAdd(address, 256)

\* (next_cidr.network_address + 1)
GatewayOf(address) == AddrAdd(address, 1)

Allocation(kind, index, subnet, gateway, error) ==
    [kind |-> kind, index |-> index, subnet |-> subnet, gateway |-> gateway,
     error |-> error]

\* create_network up to the networks.create call, on the listing nets:
\* "return" the existing network nets[index], "raise" error, or "create"
\* a network with the IPAM pool (subnet, gateway)
AllocateFrom(nets, name) ==
    LET scan == ScanNetworks(nets, 1, name, ip_network(INITIAL_CIDR))
        address == NextNetworkAddress(scan.highest_cidr)
    IN  CASE scan.kind = "existing" ->
                Allocation("return", scan.index, NoSubnet, NoAddr, None)
          [] scan.kind = "ValueError" ->
                Allocation("raise", 0, NoSubnet, NoAddr, "ValueError")
          [] OTHER ->
                IF ip_network_raises(SubnetStr("cidr", address, 24))
                THEN Allocation("raise", 0, NoSubnet, NoAddr, "ValueError")
                ELSE IF AddressSpaceExhausted(address)
                THEN Allocation("raise", 0, NoSubnet, NoAddr, "NoMoreSubnets")
                ELSE Allocation("create", 0, SubnetStr("cidr", address, 24),
                                GatewayOf(address), None)

-----------------------------------------------------------------------------
(* options_from_form and the configuration part of start() *)

Truthy(v) == v # None /\ v # "" /\ v # "False"

FormGet(formdata, key, default) ==
    IF key \in DOMAIN formdata THEN formdata[key] ELSE default

\* options_from_form(formdata)
options_from_form(formdata) ==
    [image |-> FormGet(formdata, "image", None),
     cpu_limit |-> FormGet(formdata, "cpu_limit", None),
     mem_limit |-> FormGet(formdata, "mem_limit", None),
     mount_volume |-> FormGet(formdata, "mount_volume", "False"),
     gpus |-> FormGet(formdata, "gpus", None)]

\* self.user_options.get(key)
OptionsGet(options, key) == IF key \in DOMAIN options THEN options[key] ELSE None

\* int(s) on the cpu_limit strings of the model
int(s) == CASE s = "0" -> 0 [] s = "1" -> 1 [] s = "2" -> 2 [] s = "3" -> 3 [] OTHER -> 0

min(a, b) == IF a < b THEN a ELSE b

\* self.image after "if self.user_options.get('image')"
ResolveImage(options, current) ==
    IF Truthy(OptionsGet(options, "image")) THEN OptionsGet(options, "image") ELSE current

\* nano_cpus always the number of cores of the host
NanoCpus_host_count(cpu_limit) == cpu_count * 1000000000

\* nano_cpus = int(min(int(cpu_limit), cpu_count()) * 1e9)
NanoCpus(cpu_limit) == min(int(cpu_limit), cpu_count) * 1000000000

\* the local extra_host_config dict start() builds
BuildHostConfig(options) ==
    LET keys == (IF Truthy(OptionsGet(options, "cpu_limit")) THEN {"nano_cpus"} ELSE {})
                \cup (IF Truthy(OptionsGet(options, "mem_limit")) THEN {"mem_limit"} ELSE {})
                \cup (IF Truthy(OptionsGet(options, "gpus")) THEN {"runtime"} ELSE {})
    IN  [k \in keys |->
            CASE k = "nano_cpus" -> NanoCpus(OptionsGet(options, "cpu_limit"))
              [] k = "mem_limit" -> OptionsGet(options, "mem_limit")
              [] OTHER -> "nvidia"]

\* dict.update
Update(old, new) ==
    [k \in DOMAIN old \cup DOMAIN new |-> IF k \in DOMAIN new THEN new[k] ELSE old[k]]

\* self.volumes after "if self.user_options.get('is_mount_volume') == 'on'"
ResolveVolumes(options, server_name, current) ==
    IF OptionsGet(options, "is_mount_volume") = "on"
    THEN {<<"jupyterhub-user-{username}", server_name, "/workspace">>}
    ELSE current

-----------------------------------------------------------------------------
(* The Docker daemon *)

\* the subnets of two pools share an address (prefix lengths in 8..32)
Overlaps(x, y) ==
    LET p == min(x.prefix, y.prefix)
    IN  /\ x.addr[1] = y.addr[1]
        /\ Low24(x.addr) \div Pow2(32 - p) = Low24(y.addr) \div Pow2(32 - p)

\* the daemon's atomic check at creation time: a network of that name exists,
\* or the requested pool overlaps the pool of an existing network
RuntimeRejectsDuplicate(nets, name, subnet) ==
    \E i \in 1..Len(nets) :
        \/ nets[i].name = name
        \/ /\ nets[i].ipam = "Config"
           /\ nets[i].Subnet.text = "cidr"
           /\ Overlaps(nets[i].Subnet, subnet)

\* what client.networks.list() can do
ListOutcomes == {"ok", "RuntimeUnavailable"}

\* what client.networks.create(name, ipam=...) can do
CreateOutcomes(nets, name, subnet) ==
    IF RuntimeRejectsDuplicate(nets, name, subnet)
    THEN {"DuplicateNetwork", "RuntimeUnavailable"}
    ELSE {"ok", "RuntimeUnavailable"}

ConnectResult(kind, status_code) == [kind |-> kind, status_code |-> status_code]

\* what created_network.connect(mlhub_container_id) can do: succeed, raise
\* docker.errors.APIError with a status code, or raise another exception
ConnectOutcomes ==
    {ConnectResult("ok", 0), ConnectResult("APIError", 403),
     ConnectResult("APIError", 500), ConnectResult("Exception", 0)}

\* what super().start() can do
StartOutcomes == {"ok", "StartError"}

\* networks a daemon may already hold when a hub starts launching
NetPool ==
    {Network("bridge", "Config", Cidr(172, 17, 0, 0, 16), <<172, 17, 0, 1>>),
     Network("host", "NoConfig", NoSubnet, NoAddr),
     Network("nullipam", "None", NoSubnet, NoAddr),
     Network("nosubnet", "Config", NoSubnet, NoAddr),
     Network("neta", "Config", Cidr(172, 33, 0, 0, 24), <<172, 33, 0, 1>>),
     Network("netb", "Config", Cidr(172, 33, 1, 0, 24), <<172, 33, 1, 1>>),
     Network("netc", "Config", Cidr(172, 255, 0, 0, 24), <<172, 255, 0, 1>>),
     Network("netd", "Config", Cidr(172, 255, 255, 0, 24), <<172, 255, 255, 1>>),
     Network("WS-1", "Config", Cidr(172, 33, 5, 0, 24), <<172, 33, 5, 1>>),
     Network("nete", "Config", Cidr(172, 34, 0, 128, 25), <<172, 34, 0, 129>>),
     Network("netf", "Config", Cidr(172, 40, 0, 0, 16), <<172, 40, 0, 1>>),
     Network("netg", "Config", Cidr(172, 33, 0, 5, 24), <<172, 33, 0, 1>>)}

Range(seq) == {seq[i] : i \in 1..Len(seq)}

\* the listings of at most n distinct networks of pool, in any order
RECURSIVE ListingsOf(_, _)
ListingsOf(pool, n) ==
    IF n = 0 THEN {<<>>}
    ELSE LET shorter == ListingsOf(pool, n - 1)
         IN  shorter \cup
             {Append(l, x) : <<l, x>> \in
                 {<<l, x>> \in shorter \X pool : Len(l) = n - 1 /\ x \notin Range(l)}}

\* the listings of at most n distinct networks of NetPool, in any order
Listings(n) == ListingsOf(NetPool, n)

\* NetPool and networks of other address ranges: a LAN, a VPN and a second
\* default pool of the daemon
ScanPool ==
    NetPool \cup
    {Network("lan", "Config", Cidr(192, 168, 0, 0, 24), <<192, 168, 0, 1>>),
     Network("vpn", "Config", Cidr(10, 40, 0, 0, 16), <<10, 40, 0, 1>>),
     Network("gwbridge", "Config", Cidr(172, 18, 0, 0, 16), <<172, 18, 0, 1>>)}

-----------------------------------------------------------------------------
(* The spawners *)

\* self.object_name
object_name(s) == CASE s = "s1" -> "ws-1" [] s = "s2" -> "ws-2" [] OTHER -> "WS-1"

\* self.name, the server name
server_name(s) == IF s = "s2" THEN "srv" ELSE ""

\* the spawn form as submitted
Forms ==
    {[image |-> "", cpu_limit |-> "", mem_limit |-> "", gpus |-> ""],
     [image |-> "img", cpu_limit |-> "3", mem_limit |-> "1g", gpus |-> "all",
      is_mount_volume |-> "on"]}

\* {} : the user_options of a launch that submitted no form
NoOptions == [k \in {} |-> None]

\* no form data: the launch submitted no form
NoForm == [k \in {} |-> None]

\* _options_form shows the form for named servers only; the default server
\* (self.name == "") is launched without form data
SubmittedForms(s) == IF server_name(s) = "" THEN {NoForm} ELSE Forms

\* self.user_options of a launch: options_from_form of the submitted form
\* data, {} when no form was submitted
OptionsOf(formdata) ==
    IF formdata = NoForm THEN NoOptions ELSE options_from_form(formdata)

NoCalls == [list |-> 0, create |-> 0, connect |-> 0, start |-> 0]
NoNetwork == Network(None, "None", NoSubnet, NoAddr)
NoAllocation == Allocation(None, 0, NoSubnet, NoAddr, None)
Outcome(kind, value) == [kind |-> kind, value |-> value]

\* the spawner objects after construction: no launch begun, the traits at
\* their defaults
Constructed ==
    /\ pc = [s \in Spawners |-> "idle"]
    /\ attempts = [s \in Spawners |-> 0]
    /\ form = [s \in Spawners |-> NoForm]
    /\ user_options = [s \in Spawners |-> NoOptions]
    /\ image = [s \in Spawners |-> "default"]
    /\ extra_host_config = [s \in Spawners |-> NoOptions]
    /\ volumes = [s \in Spawners |-> {}]
    /\ network_name = [s \in Spawners |-> None]
    /\ listed = [s \in Spawners |-> <<>>]
    /\ next_cidr = [s \in Spawners |-> NoAllocation]
    /\ created_network = [s \in Spawners |-> NoNetwork]
    /\ caught = [s \in Spawners |-> None]
    /\ calls = [s \in Spawners |-> NoCalls]
    /\ outcome = [s \in Spawners |-> Outcome("idle", None)]
    /\ createRequests = {}

Init ==
    /\ networks \in Listings(MaxInitNetworks)
    /\ Constructed

\* the start() calls begun so far, by all spawners
Launches == attempts["s1"] + attempts["s2"] + attempts["s3"]

\* start(), lines 154-182: a launch begins with the user_options made of
\* the submitted form data and configures image, host configuration and
\* volumes
Begin(s, formdata) ==
    /\ pc[s] \in {"idle", "done"}
    /\ Launches < MaxLaunches
    /\ form' = [form EXCEPT ![s] = formdata]
    /\ user_options' = [user_options EXCEPT ![s] = OptionsOf(formdata)]
    /\ image' = [image EXCEPT ![s] = ResolveImage(OptionsOf(formdata), image[s])]
    /\ extra_host_config' =
          [extra_host_config EXCEPT ![s] = Update(@, BuildHostConfig(OptionsOf(formdata)))]
    /\ volumes' = [volumes EXCEPT ![s] =
          ResolveVolumes(OptionsOf(formdata), server_name(s), @)]
    /\ attempts' = [attempts EXCEPT ![s] = @ + 1]
    /\ pc' = [pc EXCEPT ![s] = "list"]
    /\ listed' = [listed EXCEPT ![s] = <<>>]
    /\ next_cidr' = [next_cidr EXCEPT ![s] = NoAllocation]
    /\ created_network' = [created_network EXCEPT ![s] = NoNetwork]
    /\ caught' = [caught EXCEPT ![s] = None]
    /\ calls' = [calls EXCEPT ![s] = NoCalls]
    /\ outcome' = [outcome EXCEPT ![s] = Outcome("running", None)]
    /\ UNCHANGED <<networks, network_name, createRequests>>

\* the return of the except clause left out
NetworkErrorStep_continue(error) == "continue"

\* a duplicate-creation error makes start() run the allocation again
NetworkErrorStep_retry(error) ==
    IF error = "DuplicateNetwork" THEN "retry" ELSE "return"

\* the except clause around create_network: log the error and return,
\* whatever the error
NetworkErrorStep(error) == "return"

\* start() ends at "return" with None, at "raise" with the exception
EndStart(s, how, error) ==
    /\ pc' = [pc EXCEPT ![s] = "done"]
    /\ caught' = [caught EXCEPT ![s] = error]
    /\ outcome' = [outcome EXCEPT ![s] =
          IF how = "return" THEN Outcome("returned", None) ELSE Outcome("raised", error)]

\* start() goes on to the connect although create_network failed:
\* created_network is still None
ContinueWithoutNetwork(s, error) ==
    /\ pc' = [pc EXCEPT ![s] = "connect"]
    /\ caught' = [caught EXCEPT ![s] = error]
    /\ outcome' = outcome

\* start() calls create_network again
RetryNetwork(s, error) ==
    /\ pc' = [pc EXCEPT ![s] = "list"]
    /\ caught' = [caught EXCEPT ![s] = error]
    /\ outcome' = outcome

\* start(), lines 188-193
AfterNetworkError(s, error) ==
    CASE NetworkErrorStep(error) = "return" -> EndStart(s, "return", error)
      [] NetworkErrorStep(error) = "retry" -> RetryNetwork(s, error)
      [] OTHER -> ContinueWithoutNetwork(s, error)

\* create_network, lines 226-250: list the networks, scan them, and return
\* the network of that name, raise, or go on to create one
ListNetworks(s) ==
    /\ pc[s] = "list"
    /\ calls' = [calls EXCEPT ![s].list = @ + 1]
    /\ \E result \in ListOutcomes :
          IF result # "ok"
          THEN /\ AfterNetworkError(s, result)
               /\ UNCHANGED <<listed, next_cidr, created_network, network_name>>
          ELSE LET allocation == AllocateFrom(networks, object_name(s))
               IN  /\ listed' = [listed EXCEPT ![s] = networks]
                   /\ next_cidr' = [next_cidr EXCEPT ![s] = allocation]
                   /\ CASE allocation.kind = "return" ->
                             /\ created_network' =
                                   [created_network EXCEPT ![s] = networks[allocation.index]]
                             /\ network_name' = [network_name EXCEPT ![s] = object_name(s)]
                             /\ pc' = [pc EXCEPT ![s] = "connect"]
                             /\ UNCHANGED <<caught, outcome>>
                        [] allocation.kind = "raise" ->
                             /\ AfterNetworkError(s, allocation.error)
                             /\ UNCHANGED <<created_network, network_name>>
                        [] OTHER ->
                             /\ pc' = [pc EXCEPT ![s] = "create"]
                             /\ UNCHANGED <<created_network, network_name, caught, outcome>>
    /\ UNCHANGED <<networks, attempts, form, user_options, image, extra_host_config,
                   volumes, createRequests>>

\* the created network replaces the listing's last network
AddNetwork_replacing(nets, network) ==
    IF nets = <<>> THEN <<network>> ELSE [nets EXCEPT ![Len(nets)] = network]

\* the daemon's networks after a successful networks.create: the new network
\* joins them, no existing network is touched
AddNetwork(nets, network) == Append(nets, network)

\* create_network, lines 252-257: client.networks.create(name, ipam=...)
CreateNetwork(s) ==
    /\ pc[s] = "create"
    /\ calls' = [calls EXCEPT ![s].create = @ + 1]
    /\ createRequests' = createRequests \cup
          {[name |-> object_name(s), subnet |-> next_cidr[s].subnet,
            gateway |-> next_cidr[s].gateway, by |-> s, attempt |-> attempts[s]]}
    /\ \E result \in CreateOutcomes(networks, object_name(s), next_cidr[s].subnet) :
          IF result = "ok"
          THEN LET network == Network(object_name(s), "Config", next_cidr[s].subnet,
                                      next_cidr[s].gateway)
               IN  /\ networks' = AddNetwork(networks, network)
                   /\ created_network' = [created_network EXCEPT ![s] = network]
                   /\ network_name' = [network_name EXCEPT ![s] = object_name(s)]
                   /\ pc' = [pc EXCEPT ![s] = "connect"]
                   /\ UNCHANGED <<caught, outcome>>
          ELSE /\ AfterNetworkError(s, result)
               /\ UNCHANGED <<networks, created_network, network_name>>
    /\ UNCHANGED <<attempts, form, user_options, image, extra_host_config, volumes,
                   listed, next_cidr>>

\* every APIError is passed over, whatever its status
ConnectErrorStep_lenient(result) ==
    CASE result.kind = "ok" -> "continue"
      [] result.kind = "APIError" -> "continue"
      [] OTHER -> "raise"

\* every APIError ends the launch, status 403 included
ConnectErrorStep_strict(result) ==
    CASE result.kind = "ok" -> "continue"
      [] result.kind = "APIError" -> "return"
      [] OTHER -> "raise"

\* the except clause around connect: "return", "raise" or "continue"
ConnectErrorStep(result) ==
    CASE result.kind = "ok" -> "continue"
      [] result.kind = "APIError" ->
            IF result.status_code # 403 THEN "return" ELSE "continue"
      [] OTHER -> "raise"

\* the exception a connect result stands for
ConnectError(result) ==
    CASE result.kind = "ok" -> None
      [] result.kind = "APIError" ->
            IF result.status_code = 403 THEN "APIError403" ELSE "APIError500"
      [] OTHER -> "ConnectException"

\* start(), lines 195-205: created_network.connect(mlhub_container_id)
ConnectHub(s) ==
    /\ pc[s] = "connect"
    /\ IF created_network[s] = NoNetwork
       THEN \* None.connect(...) raises AttributeError, which is no APIError
            /\ EndStart(s, "raise", "AttributeError")
            /\ calls' = calls
       ELSE /\ calls' = [calls EXCEPT ![s].connect = @ + 1]
            /\ \E result \in ConnectOutcomes :
                  CASE ConnectErrorStep(result) = "continue" ->
                          /\ pc' = [pc EXCEPT ![s] = "start_container"]
                          /\ caught' = [caught EXCEPT ![s] = ConnectError(result)]
                          /\ outcome' = outcome
                    [] OTHER ->
                          EndStart(s, ConnectErrorStep(result), ConnectError(result))
    /\ UNCHANGED <<networks, attempts, form, user_options, image, extra_host_config,
                   volumes, network_name, listed, next_cidr, created_network,
                   createRequests>>

\* start(), lines 207-208: res = yield super().start(); return res
StartContainer(s) ==
    /\ pc[s] = "start_container"
    /\ calls' = [calls EXCEPT ![s].start = @ + 1]
    /\ pc' = [pc EXCEPT ![s] = "done"]
    /\ \E result \in StartOutcomes :
          IF result = "ok"
          THEN /\ outcome' = [outcome EXCEPT ![s] = Outcome("returned", "ip_port")]
               /\ caught' = caught
          ELSE /\ outcome' = [outcome EXCEPT ![s] = Outcome("raised", result)]
               /\ caught' = [caught EXCEPT ![s] = result]
    /\ UNCHANGED <<networks, attempts, form, user_options, image, extra_host_config,
                   volumes, network_name, listed, next_cidr, created_network,
                   createRequests>>

\* the launches of two workloads, "ws-1" and "ws-2"
Next ==
    \E s \in {"s1", "s2"} :
        \/ \E formdata \in SubmittedForms(s) : Begin(s, formdata)
        \/ ListNetworks(s)
        \/ CreateNetwork(s)
        \/ ConnectHub(s)
        \/ StartContainer(s)

Spec == Init /\ [][Next]_vars

\* the spawn form with each cpu_limit against the two cores of the host
CpuForms ==
    Forms \cup {[image |-> "", cpu_limit |-> c, mem_limit |-> "", gpus |-> ""] :
                    c \in {"0", "1", "2", "3"}}

\* the networks of a fresh daemon
DefaultNetworks ==
    <<Network("bridge", "Config", Cidr(172, 17, 0, 0, 16), <<172, 17, 0, 1>>),
      Network("host", "NoConfig", NoSubnet, NoAddr)>>

InitOptions ==
    /\ networks = DefaultNetworks
    /\ Constructed

\* the launches of the named server "srv" with every form of CpuForms
NextOptions ==
    \/ \E formdata \in CpuForms : Begin("s2", formdata)
    \/ ListNetworks("s2")
    \/ CreateNetwork("s2")
    \/ ConnectHub("s2")
    \/ StartContainer("s2")

SpecOptions == InitOptions /\ [][NextOptions]_vars

InitScan ==
    /\ networks \in ListingsOf(ScanPool, MaxInitNetworks)
    /\ Constructed

\* the launches of the workload "ws-1"
NextScan ==
    \/ Begin("s1", NoForm)
    \/ ListNetworks("s1")
    \/ CreateNetwork("s1")
    \/ ConnectHub("s1")
    \/ StartContainer("s1")

SpecScan == InitScan /\ [][NextScan]_vars

\* the launches of three workloads, two of them with names that differ in
\* case only: "ws-1", "ws-2" and "WS-1"
NextNames ==
    \E s \in Spawners :
        \/ \E formdata \in SubmittedForms(s) : Begin(s, formdata)
        \/ ListNetworks(s)
        \/ CreateNetwork(s)
        \/ ConnectHub(s)
        \/ StartContainer(s)

\* the networks the three workloads may find: one of another address range,
\* one without IPAM entry, two of the reserved range and one named like
\* "ws-1" up to case
NamesPool ==
    {Network("bridge", "Config", Cidr(172, 17, 0, 0, 16), <<172, 17, 0, 1>>),
     Network("nullipam", "None", NoSubnet, NoAddr),
     Network("neta", "Config", Cidr(172, 33, 0, 0, 24), <<172, 33, 0, 1>>),
     Network("netf", "Config", Cidr(172, 40, 0, 0, 16), <<172, 40, 0, 1>>),
     Network("WS-1", "Config", Cidr(172, 33, 5, 0, 24), <<172, 33, 5, 1>>)}

InitNames ==
    /\ networks \in ListingsOf(NamesPool, MaxInitNetworks)
    /\ Constructed

SpecNames == InitNames /\ [][NextNames]_vars

-----------------------------------------------------------------------------
(* Vocabulary of the properties: stated on the records themselves, not with *)
(* the operators of create_network                                         *)

\* networks.list() answered the create_network call of s's current launch
ListedOk(s) == next_cidr[s] # NoAllocation

\* positions of the listed networks named like the request, ignoring case
NamedLike(nets, name) == {i \in 1..Len(nets) : lower(nets[i].name) = lower(name)}

\* the network reports a subnet string
ReportsSubnet(net) == net.ipam = "Config" /\ net.Subnet.text # "empty"

\* the network reports a well-formed CIDR
ValidCidr(net) ==
    /\ net.ipam = "Config"
    /\ net.Subnet.text = "cidr"
    /\ Low24(net.Subnet.addr) % Pow2(32 - net.Subnet.prefix) = 0

\* first octet 172, second octet >= 33
OctetsInRange(addr) == addr[1] = 172 /\ addr[2] >= 33

InRange(net) == ValidCidr(net) /\ OctetsInRange(net.Subnet.addr)

InRangeAddrs(nets) == {nets[i].Subnet.addr : i \in {j \in 1..Len(nets) : InRange(nets[j])}}

Highest(addrs) == CHOOSE a \in addrs : \A b \in addrs : ~AddrLT(a, b)

\* the base address one /24 block above a base address that is a multiple of 256
BlockAbove(a) ==
    IF a[3] < 255 THEN <<a[1], a[2], a[3] + 1, 0>>
    ELSE IF a[2] < 255 THEN <<a[1], a[2] + 1, 0, 0>>
    ELSE <<a[1] + 1, 0, 0, 0>>

\* the networks.create calls of s's current launch
Requests(s) == {r \in createRequests : r.by = s /\ r.attempt = attempts[s]}

\* s's current create_network asked for the pool (subnet, gateway): it computed
\* it, and once past the call the call is on record
AsksFor(s, subnet) ==
    /\ next_cidr[s].kind = "create"
    /\ next_cidr[s].subnet = subnet
    /\ pc[s] # "create" => \E r \in Requests(s) : r.subnet = subnet

\* s's current create_network failed with error before any networks.create
FailsWith(s, error) ==
    /\ next_cidr[s].kind = "raise"
    /\ next_cidr[s].error = error
    /\ Requests(s) = {}
    /\ calls[s].create = 0

\* every listed network has a well-formed subnet in the reserved range and
\* none is named like the request
AllInRange(s) ==
    /\ ListedOk(s)
    /\ listed[s] # <<>>
    /\ \A i \in 1..Len(listed[s]) : InRange(listed[s][i])
    /\ NamedLike(listed[s], object_name(s)) = {}

-----------------------------------------------------------------------------
(* C1 *)

-----------------------------------------------------------------------------
(* C2 *)

\* C2: when no listed network has a subnet in the reserved range and none is
\* named like the request, create_network creates 172.33.0.0/24 with gateway
\* 172.33.0.1.
C2_FirstBlockWhenEmpty ==
    \A s \in Spawners :
        ( /\ ListedOk(s)
          /\ NamedLike(listed[s], object_name(s)) = {}
          /\ \A i \in 1..Len(listed[s]) :
                ~(ReportsSubnet(listed[s][i]) /\ OctetsInRange(listed[s][i].Subnet.addr)) )
        => /\ AsksFor(s, Cidr(172, 33, 0, 0, 24))
           /\ next_cidr[s].gateway = <<172, 33, 0, 1>>

-----------------------------------------------------------------------------
(* C3 *)

\* C3: whenever the listing holds a network named like the request (ignoring
\* case), wherever it stands, create_network returns that record and issues
\* no networks.create call.
C3_ReuseByName ==
    \A s \in Spawners :
        (ListedOk(s) /\ NamedLike(listed[s], object_name(s)) # {}) =>
            /\ next_cidr[s].kind = "return"
            /\ \E i \in NamedLike(listed[s], object_name(s)) :
                  created_network[s] = listed[s][i]
            /\ calls[s].create = 0
            /\ Requests(s) = {}

-----------------------------------------------------------------------------
(* C4 *)

\* the scan reaches its end: nobody is named like the request and every
\* reported subnet is a well-formed CIDR
ScanCompletes(s) ==
    /\ ListedOk(s)
    /\ NamedLike(listed[s], object_name(s)) = {}
    /\ \A i \in 1..Len(listed[s]) : ReportsSubnet(listed[s][i]) => ValidCidr(listed[s][i])
    /\ InRangeAddrs(listed[s]) # {}

\* C4 as stated: when the highest in-range subnet's second octet is 255,
\* create_network fails as exhausted and issues no creation call.
C4_ExhaustedAtSecondOctet255 ==
    \A s \in Spawners :
        (ScanCompletes(s) /\ Highest(InRangeAddrs(listed[s]))[2] = 255) =>
            FailsWith(s, "NoMoreSubnets")

\* C4 amended: when the highest in-range subnet is the last /24 block under
\* first octet 172 (172.255.255.0: second and third octet 255), create_network
\* fails as exhausted and issues no creation call.
C4_ExhaustedAtLastBlock ==
    \A s \in Spawners :
        (ScanCompletes(s) /\ Highest(InRangeAddrs(listed[s])) = <<172, 255, 255, 0>>) =>
            /\ FailsWith(s, "NoMoreSubnets")
            /\ pc[s] = "done"
            /\ caught[s] = "NoMoreSubnets"

C4_Witness ==
    \E s \in Spawners :
        /\ ScanCompletes(s)
        /\ Highest(InRangeAddrs(listed[s])) = <<172, 255, 255, 0>>
        /\ pc[s] = "done"
        /\ caught[s] = "NoMoreSubnets"

-----------------------------------------------------------------------------
(* C5 *)

\* C5: every networks.create call ever issued asks for a subnet whose first
\* octet is 172 and whose second octet is >= 33, and so does every network
\* the spawners created.
C5_ReservedRange ==
    /\ \A r \in createRequests : OctetsInRange(r.subnet.addr)
    /\ \A i \in 1..Len(networks) :
          (\E s \in Spawners : networks[i].name = object_name(s)) =>
              OctetsInRange(networks[i].Subnet.addr)

\* a network was created right below the end of the range
C5_Witness ==
    \E i \in 1..Len(networks) :
        /\ \E s \in Spawners : networks[i].name = object_name(s)
        /\ networks[i].Subnet = Cidr(172, 255, 1, 0, 24)

-----------------------------------------------------------------------------
(* C6 *)

\* the errors with which acquiring the network fails: listing or creating
\* while the daemon is unreachable, a subnet ip_network() rejects, the
\* address space exhausted, the creation rejected as a duplicate
NetworkErrors == {"RuntimeUnavailable", "ValueError", "NoMoreSubnets", "DuplicateNetwork"}

\* C6: when acquiring the network failed, the launch is over and it has
\* issued neither the hub-connect call nor the container-start call.
C6_NoStartWithoutNetwork ==
    \A s \in Spawners :
        caught[s] \in NetworkErrors =>
            /\ pc[s] = "done"
            /\ calls[s].connect = 0
            /\ calls[s].start = 0

\* one launch failed while listing, the other had its creation rejected
C6_Witness ==
    \E s, t \in Spawners :
        /\ caught[s] = "RuntimeUnavailable" /\ calls[s].list = 1 /\ calls[s].create = 0
        /\ caught[t] = "DuplicateNetwork" /\ calls[t].create = 1
        /\ pc[s] = "done" /\ pc[t] = "done"

-----------------------------------------------------------------------------
(* C7 *)

\* C7: a connect that failed with APIError status 403 is followed by the
\* container-start call; a connect that failed otherwise ends the launch
\* with no container-start call.
C7_HubAttachTolerance ==
    \A s \in Spawners :
        /\ caught[s] = "APIError403" =>
              /\ calls[s].connect = 1
              /\ \/ pc[s] = "start_container"
                 \/ pc[s] = "done" /\ calls[s].start = 1
        /\ caught[s] \in {"APIError500", "ConnectException"} =>
              /\ calls[s].connect = 1
              /\ pc[s] = "done"
              /\ calls[s].start = 0

\* one launch started its container after a 403, another ended on a 500
C7_Witness ==
    \E s, t \in Spawners :
        /\ caught[s] = "APIError403" /\ pc[s] = "done" /\ calls[s].start = 1
        /\ caught[t] = "APIError500" /\ pc[t] = "done" /\ calls[t].start = 0

-----------------------------------------------------------------------------
(* C8 *)

\* the creation of s was rejected as a duplicate after s and another launch
\* had computed the same candidate subnet and the other one created it
LostRace(s) ==
    /\ caught[s] = "DuplicateNetwork"
    /\ \E t \in Spawners \ {s} :
          /\ next_cidr[t].kind = "create"
          /\ next_cidr[t].subnet = next_cidr[s].subnet
          /\ created_network[t].name = object_name(t)
          /\ created_network[t].Subnet = next_cidr[s].subnet

-----------------------------------------------------------------------------
(* C9 *)

\* the failures that end a launch for good
FatalErrors == NetworkErrors \cup {"APIError500", "ConnectException"}

\* C9: a launch that ended on a fatal failure ended with that failure raised
\* to the caller of start().
C9_FailureSurfaced ==
    \A s \in Spawners :
        (pc[s] = "done" /\ caught[s] \in FatalErrors) =>
            outcome[s] = Outcome("raised", caught[s])

-----------------------------------------------------------------------------
(* C10 *)

\* addr lies inside the subnet (prefix length in 8..32)
Inside(addr, subnet) ==
    /\ addr[1] = subnet.addr[1]
    /\ Low24(addr) \div Pow2(32 - subnet.prefix)
          = Low24(subnet.addr) \div Pow2(32 - subnet.prefix)

\* C10: in every networks.create call the gateway is the subnet's network
\* address plus one, and lies inside the subnet.
C10_Gateway ==
    \A r \in createRequests :
        /\ r.gateway = <<r.subnet.addr[1], r.subnet.addr[2], r.subnet.addr[3],
                         r.subnet.addr[4] + 1>>
        /\ Inside(r.gateway, r.subnet)

\* the spec's scenario: 172.33.2.0/24 requested with gateway 172.33.2.1
C10_Witness ==
    \E r \in createRequests :
        r.subnet = Cidr(172, 33, 2, 0, 24) /\ r.gateway = <<172, 33, 2, 1>>

-----------------------------------------------------------------------------
(* C11 *)

\* the listing without its i-th network
Without(nets, i) == SubSeq(nets, 1, i - 1) \o SubSeq(nets, i + 1, Len(nets))

\* create_network ends the same way on two listings: the same network
\* returned, the same pool requested, or the same failure
SameResult(a, netsA, b, netsB) ==
    /\ a.kind = b.kind
    /\ a.subnet = b.subnet
    /\ a.gateway = b.gateway
    /\ a.error = b.error
    /\ a.kind = "return" => netsA[a.index] = netsB[b.index]

\* C11 as stated: for every listing that holds a network, not named like the
\* request, with no IPAM entry, an empty configuration list or an empty or
\* unparsable subnet, create_network ends as it does on the same listing
\* with that network removed.
C11_MalformedSkipped ==
    \A s \in Spawners :
        ListedOk(s) =>
            \A i \in 1..Len(listed[s]) :
                (~ValidCidr(listed[s][i]) /\ i \notin NamedLike(listed[s], object_name(s))) =>
                    SameResult(next_cidr[s], listed[s],
                               AllocateFrom(Without(listed[s], i), object_name(s)),
                               Without(listed[s], i))

-----------------------------------------------------------------------------
(* C12 *)

\* the per-user named volume of s's server, bound to /workspace
WorkspaceVolume(s) == <<"jupyterhub-user-{username}", server_name(s), "/workspace">>

\* the form of s's current launch carries is_mount_volume = "on"
AsksForVolume(s) ==
    "is_mount_volume" \in DOMAIN form[s] /\ form[s]["is_mount_volume"] = "on"

\* C12 as stated: when the container start of a launch is issued, the
\* per-user named volume is bound to /workspace if the submitted form carried
\* is_mount_volume = "on", and no such volume is bound if it did not.
C12_VolumeFromForm ==
    \A s \in Spawners :
        calls[s].start = 1 =>
            (AsksForVolume(s) <=> WorkspaceVolume(s) \in volumes[s])

-----------------------------------------------------------------------------
(* C13 *)

\* the decimal string of a cpu_limit
Decimal(n) == CASE n = 0 -> "0" [] n = 1 -> "1" [] n = 2 -> "2" [] OTHER -> "3"

\* the user_options of s's current launch carry cpu_limit n
RequestsCpus(s, n) ==
    /\ pc[s] # "idle"
    /\ "cpu_limit" \in DOMAIN user_options[s]
    /\ user_options[s]["cpu_limit"] = Decimal(n)

\* the CPU quota of s's container
CpuQuota(s) ==
    IF "nano_cpus" \in DOMAIN extra_host_config[s]
    THEN extra_host_config[s]["nano_cpus"] ELSE -1

\* C13: a launch whose cpu_limit exceeds the number of cores of the host
\* gets the quota cores * 10^9, one whose cpu_limit is at or below it gets
\* cpu_limit * 10^9.
C13_CpuClamp ==
    \A s \in Spawners : \A n \in 0..3 :
        RequestsCpus(s, n) =>
            IF n > cpu_count THEN CpuQuota(s) = cpu_count * 1000000000
            ELSE CpuQuota(s) = n * 1000000000

\* cpu_limit 3 on the two-core host: the container is started with quota 2 * 10^9
C13_Witness ==
    \E s \in Spawners :
        /\ RequestsCpus(s, 3)
        /\ calls[s].start = 1
        /\ CpuQuota(s) = 2000000000

-----------------------------------------------------------------------------
(* C14 *)

\* s's launch has its network: returned by name or created
NetworkResolved(s) ==
    /\ created_network[s] # NoNetwork
    /\ lower(created_network[s].name) = lower(object_name(s))

\* a step of s issues the runtime call op
Issues(s, op) == calls'[s][op] = calls[s][op] + 1

\* each runtime call of a launch comes after the calls before it in the order
\* list, create, connect, start and before those after it
OrderedStep ==
    \A s \in Spawners :
        /\ Issues(s, "list") => calls[s] = NoCalls
        /\ Issues(s, "create") =>
              /\ calls[s] = [NoCalls EXCEPT !.list = 1]
              /\ NamedLike(listed[s], object_name(s)) = {}
        /\ Issues(s, "connect") =>
              /\ calls[s].list = 1 /\ calls[s].connect = 0 /\ calls[s].start = 0
              /\ calls[s].create = 0 <=> NamedLike(listed[s], object_name(s)) # {}
              /\ NetworkResolved(s)
        /\ Issues(s, "start") =>
              /\ calls[s].list = 1 /\ calls[s].connect = 1 /\ calls[s].start = 0
              /\ NetworkResolved(s)
              /\ caught[s] \in {None, "APIError403"}

\* an ended launch has issued the container start or has failed with an error
EndsStartedOrFailed ==
    \A s \in Spawners :
        pc[s] = "done" =>
            \/ calls[s].start = 1
            \/ calls[s].start = 0 /\ caught[s] \in FatalErrors \cup {"AttributeError"}

\* C14: in every launch the runtime calls come in the order list networks,
\* create network (only when no listed network is named like the request),
\* connect hub, start container; the container start is issued only with the
\* network resolved and after a connect that succeeded or failed with status
\* 403; every ended launch has issued the container start or has failed.
C14_LaunchOrdering == [][OrderedStep]_vars /\ []EndsStartedOrFailed

\* a launch that listed, created, connected with the 403 answer and started
C14_Witness ==
    \E s \in Spawners :
        /\ pc[s] = "done"
        /\ calls[s] = [list |-> 1, create |-> 1, connect |-> 1, start |-> 1]
        /\ caught[s] = "APIError403"
        /\ outcome[s] = Outcome("returned", "ip_port")

-----------------------------------------------------------------------------
(* C15 *)

\* the container of s's current launch is started, on created_network[s]
Started(s) == outcome[s] = Outcome("returned", "ip_port")

-----------------------------------------------------------------------------
(* C16 *)

\* C16: within one launch each runtime operation is issued at most once: at
\* most one list, one create, one connect and one container-start call,
\* whatever errors the runtime returns.
C16_NoRetry ==
    \A s \in Spawners :
        \A op \in {"list", "create", "connect", "start"} : calls[s][op] <= 1

\* a launch whose creation the runtime refused has ended after one list and
\* one create call
C16_Witness ==
    \E s \in Spawners :
        /\ pc[s] = "done"
        /\ caught[s] \in {"DuplicateNetwork", "RuntimeUnavailable"}
        /\ calls[s] = [list |-> 1, create |-> 1, connect |-> 0, start |-> 0]

-----------------------------------------------------------------------------
(* C18 *)

\* every network known to the runtime before a step is known after it, at
\* the same place and with the same name, subnet and gateway
NetworksKept ==
    /\ Len(networks') >= Len(networks)
    /\ \A i \in 1..Len(networks) : networks'[i] = networks[i]

\* the network a launch returned or created is known to the runtime
ResolvedNetworksKnown ==
    \A s \in Spawners :
        created_network[s] # NoNetwork => created_network[s] \in Range(networks)

\* C18: no step of any launch removes or rewrites a network known to the
\* runtime; a launch aborted after its network was created leaves that
\* network in place.
C18_NetworksNeverRemoved == [][NetworksKept]_vars /\ []ResolvedNetworksKnown

\* a launch created its network and was aborted by the connect; the network
\* is still there, after the networks the runtime held before
C18_Witness ==
    \E s \in Spawners :
        /\ pc[s] = "done"
        /\ calls[s] = [list |-> 1, create |-> 1, connect |-> 1, start |-> 0]
        /\ caught[s] = "APIError500"
        /\ listed[s] # <<>>
        /\ networks = Append(listed[s], created_network[s])

-----------------------------------------------------------------------------
(* C17 *)

\* a well-formed subnet outside the reserved range: first octet other than
\* 172, or second octet below 33
OutOfRange(net) == ValidCidr(net) /\ ~OctetsInRange(net.Subnet.addr)

\* the listing without its out-of-range networks that are not named like name
InRangeOnly(nets, name) ==
    LET Kept(net) == ~OutOfRange(net) \/ lower(net.name) = lower(name)
    IN  SelectSeq(nets, Kept)

-----------------------------------------------------------------------------
(* C19 *)

\* two well-formed subnets share an address: the base address of one lies
\* in the other
SharesAddress(x, y) == Inside(x.addr, y) \/ Inside(y.addr, x)

\* C19 as stated: the subnet that create_network requests is a /24 whose
\* base address is a multiple of 256, and it shares no address with the
\* subnet of any listed network of the reserved range, whatever the prefix
\* length of that network.
C19_NoOverlap ==
    \A s \in Spawners :
        (ListedOk(s) /\ next_cidr[s].kind = "create") =>
            /\ next_cidr[s].subnet.prefix = 24
            /\ next_cidr[s].subnet.addr[4] = 0
            /\ \A i \in 1..Len(listed[s]) :
                  InRange(listed[s][i]) =>
                      ~SharesAddress(next_cidr[s].subnet, listed[s][i].Subnet)

-----------------------------------------------------------------------------
(* C20 *)

\* the user_options of s's current launch carry no value for key
Omits(s, key) ==
    key \notin DOMAIN user_options[s] \/ user_options[s][key] \in {None, "", "False"}

\* C20 as stated: when the container start of a launch is issued, a setting
\* that the launch's own options omit has its default: the default image, no
\* CPU quota, no memory limit, no GPU runtime, no volume bound.
C20_NoLeak ==
    \A s \in Spawners :
        calls[s].start = 1 =>
            /\ Omits(s, "image") => image[s] = "default"
            /\ Omits(s, "cpu_limit") => "nano_cpus" \notin DOMAIN extra_host_config[s]
            /\ Omits(s, "mem_limit") => "mem_limit" \notin DOMAIN extra_host_config[s]
            /\ Omits(s, "gpus") => "runtime" \notin DOMAIN extra_host_config[s]
            /\ Omits(s, "is_mount_volume") => volumes[s] = {}

====
